---- MODULE Spec2Model ----
(***************************************************************************)
(* ChronoStox: a Streamlit paper-trading dashboard.  One user session owns *)
(* st.session_state; every widget interaction re-executes the script of    *)
(* the page on display from top to bottom.  The model has one action per   *)
(* script run (page x activated widget), each translated from the whole    *)
(* script: render_sidebar, the session-state defaults, the sidebar         *)
(* handlers and the main content.                                          *)
(* The screener page reads no account state beyond render_sidebar; its     *)
(* filters, sort and pagination are modelled over the page's own widgets   *)
(* (SpecScreener).                                                         *)
(*                                                                         *)
(* Numbers.  Python floats are modelled as decimal fixed-point numbers     *)
(* with five fractional digits, held as [w, f] = w + f / Scale with        *)
(* 0 <= f < Scale (TLC integers are 32 bit, 100000.00000 does not fit in   *)
(* one).  Sums, differences and products with an integer are exact;        *)
(* a quotient is rounded down to the resolution.  NaN and infinities are   *)
(* not represented: every close the provider returns here is finite.       *)
(***************************************************************************)
EXTENDS Integers, Sequences, FiniteSets, TLC

\* ------------------------------------------------------------------ bounds
MaxTrades == 2          \* trades accepted per session (length of the log)
MaxSessionTrades == 1   \* the same, in sessions over all five pages (SpecSession)
MaxLedgerTrades == 3    \* the same, for direct calls of execute_trade_record

\* ----------------------------------------------------------------- numbers
Scale == 10 ^ 5

Norm(w, f) == [w |-> w + (f \div Scale), f |-> f % Scale]
D(w, f) == Norm(w, f)
Zero == [w |-> 0, f |-> 0]
FromInt(n) == [w |-> n, f |-> 0]

Add(a, b) == Norm(a.w + b.w, a.f + b.f)
Sub(a, b) == Norm(a.w - b.w, a.f - b.f)
Mul(a, n) == Norm(a.w * n, a.f * n)
Div(a, n) == [w |-> a.w \div n, f |-> (((a.w % n) * Scale) + a.f) \div n]
Lt(a, b) == a.w < b.w \/ (a.w = b.w /\ a.f < b.f)
Leq(a, b) == a = b \/ Lt(a, b)

\* Python round(x, ndigits) for ndigits <= 5: to the nearest multiple of
\* step = Scale / 10^ndigits, a tie going to the even multiple.
RoundStep(a, step) ==
    LET lo == a.f \div step
        rem == a.f % step
        up == \/ 2 * rem > step
              \/ (2 * rem = step /\ lo % 2 = 1)
    IN  Norm(a.w, (IF up THEN lo + 1 ELSE lo) * step)
Round4(a) == RoundStep(a, 10)
Round2(a) == RoundStep(a, 1000)

\* -------------------------------------------------------- static program data
None == "None"
Falsy(s) == s \in {None, ""}

INITIAL_CASH == FromInt(100000)

\* DEFAULT_TICKERS, cut to its first entries; the ticker selectboxes offer these.
DEFAULT_TICKERS == <<"RELIANCE.NS", "TCS.NS">>
TickerOptions == {DEFAULT_TICKERS[i] : i \in 1..Len(DEFAULT_TICKERS)}
\* ChronoTrade also takes a ticker typed into a text input.
TypedTickers == {"CL=F"}

SCENARIOS == {"2008 Financial Crisis", "COVID-19 Crash"}

LEGACY_HOLDINGS ==
    << [ticker |-> "RELIANCE.NS", quantity |-> 20, avg_price |-> D(2800, 0)],
       [ticker |-> "TCS.NS",      quantity |-> 10, avg_price |-> D(3850, 0)] >>

DEFAULT_POSITION == [quantity |-> 0, avg_price |-> Zero]

\* ------------------------------------------------------------ the provider
\* yfinance is external: a call returns a daily series (bars with a timestamp
\* and a Close) or an empty frame.  The series below are what it may
\* return here; an empty frame is always possible (network error, no data).
Bar(ymd, close) == [ts |-> [ymd |-> ymd, hms |-> "00:00:00"], Close |-> close]
Empty == << >>

ScenarioHistory(ticker, scenario) ==
    IF ticker = "CL=F" /\ scenario = "COVID-19 Crash"
      THEN { << Bar("2020-01-02", D(61, 18000)), Bar("2020-04-20", D(-37, -63000)) >> }
    ELSE IF ticker = "TCS.NS" /\ scenario = "2008 Financial Crisis"
      THEN { << Bar("2008-10-01", D(3850, 0)) >> }
    ELSE { }

LiveHistory(ticker) ==
    IF ticker = "RELIANCE.NS"
      THEN { << Bar("2026-11-05", D(2893, 44995)) >> }
    ELSE IF ticker = "TCS.NS"
      THEN { << Bar("2026-11-05", D(3861, 50000)) >> }
    ELSE { }

NowValues == { [ymd |-> "2026-11-06", hms |-> "10:15:00"] }

\* number_input("Quantity", min_value=1, step=1): the values entered here.
Quantities == {1, 1500}

\* strftime("%Y-%m-%d %H:%M:%S")
Strftime(ts) == << ts.ymd, ts.hms >>


\* sim_idx = None
NoIdx == -1

\* ------------------------------------------------------------------- state
VARIABLES
    session_state,  \* st.session_state: the account and both surfaces
    event,          \* the interaction that triggered the last script run
    notices         \* st.error / st.success notices of the last script run

vars == << session_state, event, notices >>

\* A key a page initialises with "if key not in st.session_state" holds that
\* default from the start; holdings has two different defaults (a list on
\* Dashboard and My_Portfolio, a dict on the trading pages), so whether it is
\* set, and as what, is state: holdings_kind is "unset", "list" or "dict".
FreshSession ==
    [ virtual_cash       |-> INITIAL_CASH,
      holdings_kind      |-> "unset",
      holdings           |-> << >>,
      trades             |-> << >>,
      chrono_ticker_data |-> Empty,
      sim_idx            |-> NoIdx,
      current_ticker     |-> None,
      current_scenario   |-> None,
      prices             |-> << >>,
      ticker             |-> "RELIANCE.NS",
      ticker_data        |-> Empty ]

\* ------------------------------------------------------------ dict helpers
Get(d, k, default) == IF k \in DOMAIN d THEN d[k] ELSE default
Put(d, k, v) == [x \in (DOMAIN d) \cup {k} |-> IF x = k THEN v ELSE d[x]]

\* --------------------------------------------------------- utils/sidebar.py
\* str(i) of the list index i (0-based), for the lists that occur.
StrIndex(i) == IF i = 1 THEN "0" ELSE IF i = 2 THEN "1" ELSE "2"

render_sidebar(ss) ==
    IF ss.holdings_kind = "list"
      THEN [ss EXCEPT
              !.holdings_kind = "dict",
              !.holdings = [k \in {StrIndex(i) : i \in 1..Len(ss.holdings)} |->
                              ss.holdings[CHOOSE i \in 1..Len(ss.holdings) : StrIndex(i) = k]]]
      ELSE ss

\* ------------------------------------------------- session-state defaults
\* Dashboard.py, My_Portfolio.py
ListDefaults(ss) ==
    IF ss.holdings_kind = "unset"
      THEN [ss EXCEPT !.holdings_kind = "list", !.holdings = LEGACY_HOLDINGS]
      ELSE ss

\* ChronoTrade.py, Live_Market.py
DictDefaults(ss) ==
    IF ss.holdings_kind = "unset"
      THEN [ss EXCEPT !.holdings_kind = "dict", !.holdings = << >>]
      ELSE ss


\* ------------------------------------------ ChronoTrade.py: trading engine
\* A step of a script: the session state it leaves and the notices it shows.
Step(ss, out) == [ss |-> ss, out |-> out]

\* if st.session_state.virtual_cash < cost
InsufficientFunds(virtual_cash, cost) == Lt(virtual_cash, cost)

\* if quantity > h["quantity"]
InsufficientHoldingsMutant(quantity, h) == quantity >= h.quantity
InsufficientHoldingsOffByOne(quantity, h) == quantity - 1 > h.quantity
InsufficientHoldings(quantity, h) == quantity > h.quantity

\* new_avg = ((h["avg_price"] * h["quantity"]) + cost) / new_qty if new_qty > 0 else 0.0
NewAvgMutant(h, cost, new_qty) ==
    IF new_qty > 0 THEN Div(cost, new_qty) ELSE Zero
NewAvg(h, cost, new_qty) ==
    IF new_qty > 0
      THEN Div(Add(Mul(h.avg_price, h.quantity), cost), new_qty)
      ELSE Zero

\* h.update({"quantity": h["quantity"] - quantity}); if h["quantity"] == 0: h["avg_price"] = 0.0
AfterSellMutant(h, quantity) == [h EXCEPT !.quantity = @ - quantity]
AfterSellAlwaysReset(h, quantity) ==
    [h EXCEPT !.quantity = @ - quantity, !.avg_price = Zero]
AfterSell(h, quantity) ==
    LET left == h.quantity - quantity
    IN  [h EXCEPT !.quantity = left,
                  !.avg_price = IF left = 0 THEN Zero ELSE @]

\* st.session_state.virtual_cash += proceeds
CashAfterSellMutant(virtual_cash, proceeds) == Sub(virtual_cash, proceeds)
CashAfterSell(virtual_cash, proceeds) == Add(virtual_cash, proceeds)

\* st.session_state.trades.append({...})
AppendTradeMutant(trades, record) == << record >> \o trades
AppendTrade(trades, record) == Append(trades, record)

execute_trade_record(ss, ticker, action, quantity, price, dt, scenario) ==
    IF quantity <= 0
      THEN Step(ss, << "Quantity must be positive." >>)
    ELSE
    LET h == Get(ss.holdings, ticker, DEFAULT_POSITION)
        record == [ datetime |-> Strftime(dt),
                    ticker   |-> ticker,
                    action   |-> action,
                    quantity |-> quantity,
                    price    |-> Round4(price),
                    value    |-> Round2(Mul(price, quantity)),
                    scenario |-> IF ~Falsy(scenario) THEN scenario
                                 ELSE IF ~Falsy(ss.current_scenario) THEN ss.current_scenario
                                 ELSE "-" ]
    IN
    IF action = "BUY"
      THEN LET cost == Mul(price, quantity)
               new_qty == h.quantity + quantity
               new_avg == NewAvg(h, cost, new_qty)
           IN  IF InsufficientFunds(ss.virtual_cash, cost)
                 THEN Step(ss, << "Not enough virtual cash." >>)
                 ELSE Step([ss EXCEPT
                              !.holdings = Put(ss.holdings, ticker,
                                  [h EXCEPT !.quantity = new_qty, !.avg_price = new_avg]),
                              !.virtual_cash = Sub(ss.virtual_cash, cost),
                              !.trades = AppendTrade(ss.trades, record)],
                           << "Bought" >>)
    ELSE IF action = "SELL"
      THEN IF InsufficientHoldings(quantity, h)
             THEN Step(ss, << "You don't have enough shares to sell." >>)
             ELSE LET proceeds == Mul(price, quantity)
                  IN  Step([ss EXCEPT
                              !.holdings = Put(ss.holdings, ticker, AfterSell(h, quantity)),
                              !.virtual_cash = CashAfterSell(ss.virtual_cash, proceeds),
                              !.trades = AppendTrade(ss.trades, record)],
                           << "Sold" >>)
    ELSE Step(ss, << "Unknown action." >>)

\* ------------------------------------------------ ChronoTrade.py: the script
\* "Load Scenario Data": data is what fetch_history returned for the ticker
\* and scenario chosen in the sidebar.
LoadScenarioDataMutant(ss, ticker, scenario_name, data) ==
    IF data = Empty
      THEN Step([ss EXCEPT !.chrono_ticker_data = data, !.sim_idx = NoIdx],
                << "No data found for this ticker in the selected period." >>)
      ELSE Step([ss EXCEPT
                   !.chrono_ticker_data = data,
                   !.sim_idx = Len(data) - 1,
                   !.current_ticker = ticker,
                   !.current_scenario = scenario_name,
                   !.prices = Put(ss.prices, ticker, data[Len(data)].Close)],
                << "Scenario loaded" >>)
LoadScenarioData(ss, ticker, scenario_name, data) ==
    IF data = Empty
      THEN Step(ss, << "No data found for this ticker in the selected period." >>)
      ELSE Step([ss EXCEPT
                   !.chrono_ticker_data = data,
                   !.sim_idx = Len(data) - 1,
                   !.current_ticker = ticker,
                   !.current_scenario = scenario_name,
                   !.prices = Put(ss.prices, ticker, data[Len(data)].Close)],
                << "Scenario loaded" >>)

ChronoLoaded(ss) == ss.chrono_ticker_data # Empty /\ ~Falsy(ss.current_ticker)

\* st.slider(..., value=st.session_state.sim_idx, key="sim_idx_slider").  The
\* slider is a keyed widget: Streamlit stores its position under the key for as
\* long as the widget is rendered in consecutive runs.  When the script passes
\* a value argument that differs from the stored position (which happens in
\* the run of a successful load only: every other run passes the position the
\* slider returned last), a Streamlit that identifies the widget by all its
\* arguments starts a new widget at value, and a Streamlit that identifies a
\* keyed slider by key, min_value, max_value and step returns the stored
\* position.  No Streamlit version is pinned by the repository, so both
\* happen.  kept is << >> or << stored position, max_value >> of the slider
\* as rendered by the previous run.
SliderState(ss, keyed) ==
    IF keyed /\ ChronoLoaded(ss)
      THEN << ss.sim_idx, Len(ss.chrono_ticker_data) - 1 >>
      ELSE << >>

Slider(max_value, value, ev, kept) ==
    IF ev.widget = "slider" THEN ev.arg
    ELSE IF kept # << >> /\ kept[2] = max_value THEN kept[1]
    ELSE value

\* df.iloc[sim_idx]["Close"]
CurrentPriceMutant(df, sim_idx) == df[1].Close
CurrentPrice(df, sim_idx) == df[sim_idx + 1].Close

\* sim_dt = dates[sim_idx]
SimDtMutant(df, sim_idx) == df[Len(df)].ts
SimDt(df, sim_idx) == df[sim_idx + 1].ts

\* The main content: the slider, the price at the cursor, the trading panel.
\* ev is the interaction of this run.
ChronoMain(ss, ev, kept) ==
    IF ~ChronoLoaded(ss)
      THEN Step(ss, << >>)
    ELSE
    LET df == ss.chrono_ticker_data
        ticker == ss.current_ticker
        scenario_name == ss.current_scenario
        value == IF ss.sim_idx = NoIdx THEN Len(df) - 1 ELSE ss.sim_idx
        sim_idx == Slider(Len(df) - 1, value, ev, kept)
        sim_dt == SimDt(df, sim_idx)
        current_price == CurrentPrice(df, sim_idx)
        s1 == [ss EXCEPT !.sim_idx = sim_idx,
                         !.prices = Put(ss.prices, ticker, current_price)]
    IN  IF ev.widget \in {"BUY", "SELL"}
          THEN execute_trade_record(s1, ticker, ev.widget, ev.arg, current_price,
                                    sim_dt, scenario_name)
          ELSE Step(s1, << >>)

\* FULL-portfolio valuation, shown in the trading panel of every run with a
\* loaded scenario: positions with quantity <= 0 and positions whose ticker
\* has no entry in st.session_state.prices are skipped.
RECURSIVE holdings_total(_, _, _)
holdings_total(holdings, prices, keys) ==
    IF keys = {} THEN Zero
    ELSE LET t == CHOOSE k \in keys : TRUE
             h == holdings[t]
             rest == holdings_total(holdings, prices, keys \ {t})
         IN  IF h.quantity <= 0 THEN rest
             ELSE IF t \notin DOMAIN prices THEN rest
             ELSE Add(rest, Mul(prices[t], h.quantity))

port_val(ss) ==
    Add(ss.virtual_cash, holdings_total(ss.holdings, ss.prices, DOMAIN ss.holdings))

\* sel = << ticker, scenario_name >> chosen in the sidebar (read by Load only).
ChronoTradeScript(ss, ev, sel, data, kept) ==
    LET s0 == DictDefaults(render_sidebar(ss))
        a == IF ev.widget = "Load"
               THEN LoadScenarioData(s0, sel[1], sel[2], data)
               ELSE Step(s0, << >>)
        b == ChronoMain(a.ss, ev, kept)
    IN  Step(b.ss, a.out \o b.out)


\* ------------------------------------------------ Live_Market.py: the script
\* st.session_state.ticker = st.selectbox(...): the option the user picked in
\* this run, else the option at default_index.
LiveSelectboxMutant(ss, ev, picked) ==
    IF ev.widget = "select" THEN picked ELSE DEFAULT_TICKERS[1]
LiveSelectbox(ss, ev, picked) ==
    IF ev.widget = "select" THEN picked
    ELSE IF ss.ticker \in TickerOptions THEN ss.ticker
    ELSE DEFAULT_TICKERS[1]

\* "Fetch Data": df is what fetch_history returned for st.session_state.ticker.
FetchData(ss, df) ==
    IF df = Empty
      THEN Step(ss, << "No historical data found for the selected ticker." >>)
      ELSE Step([ss EXCEPT !.ticker_data = df], << "Loaded data" >>)

LiveLoaded(ss) == ss.ticker_data # Empty

\* if st.session_state.virtual_cash >= cost
LiveEnoughCash(virtual_cash, cost) == Leq(cost, virtual_cash)

\* if qty > h.get('quantity', 0)
LiveInsufficientHoldings(qty, h) == qty > h.quantity

\* new_avg = ((h['avg_price'] * h['quantity']) + cost) / new_qty if new_qty else 0.0
LiveNewAvg(h, cost, new_qty) ==
    IF new_qty # 0
      THEN Div(Add(Mul(h.avg_price, h.quantity), cost), new_qty)
      ELSE Zero

\* h['quantity'] -= qty; if h['quantity'] == 0: h['avg_price'] = 0.0
LiveAfterSellMutant(h, qty) == [h EXCEPT !.quantity = @ - qty]
LiveAfterSell(h, qty) ==
    LET left == h.quantity - qty
    IN  [h EXCEPT !.quantity = left,
                  !.avg_price = IF left = 0 THEN Zero ELSE @]

LiveTradeRecord(ticker, action, qty, current_price, amount, now) ==
    [ datetime |-> Strftime(now),
      ticker   |-> ticker,
      action   |-> action,
      quantity |-> qty,
      price    |-> Round4(current_price),
      value    |-> Round2(amount) ]

LiveBuy(ss, ticker, qty, current_price, now) ==
    LET cost == Mul(current_price, qty)
        h == Get(ss.holdings, ticker, DEFAULT_POSITION)
        new_qty == h.quantity + qty
        new_avg == LiveNewAvg(h, cost, new_qty)
    IN  IF LiveEnoughCash(ss.virtual_cash, cost)
          THEN Step([ss EXCEPT
                       !.holdings = Put(ss.holdings, ticker,
                                        [quantity |-> new_qty, avg_price |-> new_avg]),
                       !.virtual_cash = Sub(ss.virtual_cash, cost),
                       !.trades = Append(ss.trades,
                           LiveTradeRecord(ticker, "BUY", qty, current_price, cost, now))],
                    << "Bought" >>)
          ELSE Step(ss, << "Not enough virtual cash." >>)

LiveSell(ss, ticker, qty, current_price, now) ==
    LET h == Get(ss.holdings, ticker, DEFAULT_POSITION)
    IN  IF LiveInsufficientHoldings(qty, h)
          THEN Step(ss, << "Not enough holdings to sell." >>)
          ELSE LET proceeds == Mul(current_price, qty)
               IN  Step([ss EXCEPT
                           !.holdings = Put(ss.holdings, ticker, LiveAfterSell(h, qty)),
                           !.virtual_cash = Add(ss.virtual_cash, proceeds),
                           !.trades = Append(ss.trades,
                               LiveTradeRecord(ticker, "SELL", qty, current_price, proceeds, now))],
                        << "Sold" >>)

LiveMain(ss, ev, now) ==
    IF ~LiveLoaded(ss)
      THEN Step(ss, << >>)
    ELSE
    LET ticker == ss.ticker
        df == ss.ticker_data
        current_price == df[Len(df)].Close
    IN  IF ev.widget = "BUY" THEN LiveBuy(ss, ticker, ev.arg, current_price, now)
        ELSE IF ev.widget = "SELL" THEN LiveSell(ss, ticker, ev.arg, current_price, now)
        ELSE Step(ss, << >>)

LiveMarketScript(ss, ev, picked, df, now) ==
    LET s0 == DictDefaults(render_sidebar(ss))
        s1 == [s0 EXCEPT !.ticker = LiveSelectbox(s0, ev, picked)]
        a == IF ev.widget = "Fetch" THEN FetchData(s1, df) ELSE Step(s1, << >>)
        b == LiveMain(a.ss, ev, now)
    IN  Step(b.ss, a.out \o b.out)

\* ------------------------------------------------------ the other scripts
DashboardScript(ss) == Step(ListDefaults(ss), << >>)
MyPortfolioScript(ss) == Step(ListDefaults(ss), << >>)
StockScreenerScript(ss) == Step(render_sidebar(ss), << >>)

\* ----------------------------------------------------------------- actions
\* One action per script run: event' is the interaction that triggered it
\* (the page, the activated widget and, for BUY and SELL, the quantity in
\* the number input).  A widget can be used when its page is on display.
Ev(p, widget, arg) == [page |-> p, widget |-> widget, arg |-> arg]

page == event.page

RunWithin(max, step, ev) ==
    /\ Len(step.ss.trades) <= max
    /\ session_state' = step.ss
    /\ notices' = step.out
    /\ event' = ev

Init ==
    /\ session_state = FreshSession
    /\ event = Ev("none", "start", 0)
    /\ notices = << >>

\* Opening a page (a page link, the URL) or re-running the page on display.
VisitDashboard(max) == RunWithin(max, DashboardScript(session_state), Ev("Dashboard", "visit", 0))
VisitMyPortfolio(max) == RunWithin(max, MyPortfolioScript(session_state), Ev("My_Portfolio", "visit", 0))
VisitStockScreener(max) == RunWithin(max, StockScreenerScript(session_state), Ev("Stock_Screener", "visit", 0))
VisitChronoTrade(max) ==
    LET ev == Ev("ChronoTrade", "visit", 0)
    IN  RunWithin(max, ChronoTradeScript(session_state, ev, << >>, Empty, << >>), ev)
VisitLiveMarket(max) ==
    \E now \in NowValues :
        LET ev == Ev("Live_Market", "visit", 0)
        IN  RunWithin(max, LiveMarketScript(session_state, ev, "", Empty, now), ev)

\* ChronoTrade widgets
ChronoLoad(max) ==
    /\ page = "ChronoTrade"
    /\ \E ticker \in TickerOptions \cup TypedTickers, scenario_name \in SCENARIOS :
       \E data \in ScenarioHistory(ticker, scenario_name) \cup {Empty}, keyed \in BOOLEAN :
          LET ev == Ev("ChronoTrade", "Load", 0)
          IN  RunWithin(max, ChronoTradeScript(session_state, ev, << ticker, scenario_name >>,
                                               data, SliderState(session_state, keyed)), ev)

ChronoSlider(max) ==
    /\ page = "ChronoTrade"
    /\ ChronoLoaded(session_state)
    /\ \E i \in 0..(Len(session_state.chrono_ticker_data) - 1) :
          LET ev == Ev("ChronoTrade", "slider", i)
          IN  RunWithin(max, ChronoTradeScript(session_state, ev, << >>, Empty, << >>), ev)

ChronoBuy(max) ==
    /\ page = "ChronoTrade"
    /\ ChronoLoaded(session_state)
    /\ \E qty \in Quantities :
          LET ev == Ev("ChronoTrade", "BUY", qty)
          IN  RunWithin(max, ChronoTradeScript(session_state, ev, << >>, Empty, << >>), ev)

ChronoSell(max) ==
    /\ page = "ChronoTrade"
    /\ ChronoLoaded(session_state)
    /\ \E qty \in Quantities :
          LET ev == Ev("ChronoTrade", "SELL", qty)
          IN  RunWithin(max, ChronoTradeScript(session_state, ev, << >>, Empty, << >>), ev)

\* Live_Market widgets
LiveSelect(max) ==
    /\ page = "Live_Market"
    /\ \E t \in TickerOptions, now \in NowValues :
          LET ev == Ev("Live_Market", "select", 0)
          IN  RunWithin(max, LiveMarketScript(session_state, ev, t, Empty, now), ev)

LiveFetch(max) ==
    /\ page = "Live_Market"
    /\ \E df \in LiveHistory(session_state.ticker) \cup {Empty}, now \in NowValues :
          LET ev == Ev("Live_Market", "Fetch", 0)
          IN  RunWithin(max, LiveMarketScript(session_state, ev, "", df, now), ev)

LiveBuyClick(max) ==
    /\ page = "Live_Market"
    /\ LiveLoaded(session_state)
    /\ \E qty \in Quantities, now \in NowValues :
          LET ev == Ev("Live_Market", "BUY", qty)
          IN  RunWithin(max, LiveMarketScript(session_state, ev, "", Empty, now), ev)

LiveSellClick(max) ==
    /\ page = "Live_Market"
    /\ LiveLoaded(session_state)
    /\ \E qty \in Quantities, now \in NowValues :
          LET ev == Ev("Live_Market", "SELL", qty)
          IN  RunWithin(max, LiveMarketScript(session_state, ev, "", Empty, now), ev)

\* Sessions that open the two trading pages only.
Next ==
    \/ VisitChronoTrade(MaxTrades)
    \/ VisitLiveMarket(MaxTrades)
    \/ ChronoLoad(MaxTrades)
    \/ ChronoSlider(MaxTrades)
    \/ ChronoBuy(MaxTrades)
    \/ ChronoSell(MaxTrades)
    \/ LiveSelect(MaxTrades)
    \/ LiveFetch(MaxTrades)
    \/ LiveBuyClick(MaxTrades)
    \/ LiveSellClick(MaxTrades)

Spec == Init /\ [][Next]_vars

\* Sessions over all five pages, in any order.
NextSession ==
    \/ VisitDashboard(MaxSessionTrades)
    \/ VisitMyPortfolio(MaxSessionTrades)
    \/ VisitStockScreener(MaxSessionTrades)
    \/ VisitChronoTrade(MaxSessionTrades)
    \/ VisitLiveMarket(MaxSessionTrades)
    \/ ChronoLoad(MaxSessionTrades)
    \/ ChronoSlider(MaxSessionTrades)
    \/ ChronoBuy(MaxSessionTrades)
    \/ ChronoSell(MaxSessionTrades)
    \/ LiveSelect(MaxSessionTrades)
    \/ LiveFetch(MaxSessionTrades)
    \/ LiveBuyClick(MaxSessionTrades)
    \/ LiveSellClick(MaxSessionTrades)

SpecSession == Init /\ [][NextSession]_vars


\* ------------------------------------------ Stock_Screener.py: the screener
\* Text is a sequence of characters, so that lower(), strip() and
\* str.contains() are computed and not assumed.
UpperChars == << "A", "B", "N" >>
LowerChars == << "a", "b", "n" >>
Lower(c) ==
    IF \E i \in 1..Len(UpperChars) : UpperChars[i] = c
      THEN LowerChars[CHOOSE i \in 1..Len(UpperChars) : UpperChars[i] = c]
      ELSE c
StrLower(str) == [i \in 1..Len(str) |-> Lower(str[i])]

RECURSIVE Strip(_)
Strip(str) ==
    IF str = << >> THEN str
    ELSE IF Head(str) = " " THEN Strip(Tail(str))
    ELSE IF str[Len(str)] = " " THEN Strip(SubSeq(str, 1, Len(str) - 1))
    ELSE str

\* Series.str.contains(pat): pat is a regular expression (regex=True is the
\* default), searched anywhere in the text.  Of the metacharacters only "."
\* (any character) occurs in the queries entered here.
StrContains(text, pat) ==
    \E i \in 1..(Len(text) - Len(pat) + 1) :
        \A j \in 1..Len(pat) : pat[j] = "." \/ text[i + j - 1] = pat[j]

\* pd.to_numeric(..., errors="coerce"): a missing or non-numeric cell
NaN == -1

\* data/ticker.csv as load_full_ticker_data returns it (Ticker upper-cased).
Row(ticker, name, category, mcap, price) ==
    [Ticker |-> ticker, Name |-> name, Category |-> category,
     MarketCap |-> mcap, Price |-> price]

full_df ==
    << Row(<< "A", ".", "N" >>, << "A", "b" >>, "IT",   5, 10),
       Row(<< "B", ".", "N" >>, << "B", "a" >>, "Bank", 3, NaN),
       Row(<< "A", "B" >>,      << "a", "b" >>, "IT",   8, 30),
       Row(<< "B", "A" >>,      << "b", "b" >>, "Bank", 7, 20),
       Row(<< "N", ".", "A" >>, << "N", "a" >>, "Bank", 3, 20),
       Row(<< "N", "B" >>,      << "n", "b" >>, "Bank", 1, 50),
       Row(<< "A", "A" >>,      << "a", "a" >>, "IT",   9, NaN),
       Row(<< "B", "B" >>,      << "B", "n" >>, "Bank", NaN, 40),
       Row(<< "A", "N" >>,      << "a", "n" >>, "Bank", 5, 10),
       Row(<< "B", ".", "A" >>, << "b", "." >>, "IT",   2, 60),
       Row(<< "N", "N" >>,      << "n", "n" >>, "Bank", 4, 30),
       Row(<< "N", "A" >>,      << "N", "b" >>, "Bank", 6, 20) >>

Caps(df) == {df[i].MarketCap : i \in 1..Len(df)} \ {NaN}
\* sorted(full_df["Category Name"].dropna().unique().tolist())
sectors == {full_df[i].Category : i \in 1..Len(full_df)}
has_mcap == Caps(full_df) # {}
mcap_min == CHOOSE m \in Caps(full_df) : \A n \in Caps(full_df) : m <= n
mcap_max == CHOOSE m \in Caps(full_df) : \A n \in Caps(full_df) : m >= n
\* "Sort by": "None" and the numeric columns (Market Cap is MarketCap here)
numeric_cols == {"MarketCap", "Price"}
\* "Rows per page"
RppOptions == {10, 25, 50, 100}

\* What is typed or picked in the widgets
Queries == { << >>, << "a" >>, << "." >>, << " ", "B" >> }
McapInputs == {mcap_min, 4, mcap_max}

\* DataFrame.sort_values(by=col, ascending=asc, na_position="last"): the rows
\* with a value in order, then the rows without.  For frames of this size the
\* default sort kind is an insertion sort, which keeps ties in frame order.
InsertSorted(sorted, row, col, asc) ==
    LET before == {i \in 1..Len(sorted) :
                      IF asc THEN sorted[i][col] <= row[col]
                             ELSE sorted[i][col] >= row[col]}
        pos == Cardinality(before)
    IN  SubSeq(sorted, 1, pos) \o << row >> \o SubSeq(sorted, pos + 1, Len(sorted))

RECURSIVE SortRows(_, _, _)
SortRows(rows, col, asc) ==
    IF rows = << >> THEN << >>
    ELSE InsertSorted(SortRows(SubSeq(rows, 1, Len(rows) - 1), col, asc),
                      rows[Len(rows)], col, asc)

sort_values(df, col, asc) ==
    SortRows(SelectSeq(df, LAMBDA r : r[col] # NaN), col, asc)
        \o SelectSeq(df, LAMBDA r : r[col] = NaN)

\* if q: ... str.contains(ql) on Ticker or Name
SearchFilter(df, q) ==
    IF q = << >> THEN df
    ELSE LET ql == StrLower(Strip(q))
         IN  SelectSeq(df, LAMBDA r : \/ StrContains(StrLower(r.Ticker), ql)
                                      \/ StrContains(StrLower(r.Name), ql))

\* if sel_sectors: ... isin(sel_sectors)
SectorFilter(df, sel_sectors) ==
    IF sel_sectors = {} THEN df
    ELSE SelectSeq(df, LAMBDA r : r.Category \in sel_sectors)

\* if has_mcap and min_val is not None and max_val is not None: a comparison
\* with NaN is False
McapFilter(df, min_val, max_val) ==
    IF ~has_mcap THEN df
    ELSE SelectSeq(df, LAMBDA r : /\ r.MarketCap # NaN
                                  /\ r.MarketCap >= min_val
                                  /\ r.MarketCap <= max_val)

Filtered(w) ==
    LET f == McapFilter(SectorFilter(SearchFilter(full_df, w.screener_search),
                                     w.screener_sectors),
                        w.screener_mcap_min, w.screener_mcap_max)
    IN  IF w.screener_sort_col # "None"
          THEN sort_values(f, w.screener_sort_col, w.screener_sort_asc)
          ELSE f

\* pages = max(1, (total + per_page - 1) // per_page)
PageCount(total, per_page) ==
    LET n == (total + per_page - 1) \div per_page
    IN  IF n > 1 THEN n ELSE 1

\* filtered.iloc[start:end][display_cols]
Iloc(df, start, end) ==
    SubSeq(df, start + 1, IF end < Len(df) THEN end ELSE Len(df))
DisplayCols(r) ==
    [Ticker |-> r.Ticker, Name |-> r.Name, Category |-> r.Category, MarketCap |-> r.MarketCap]

display_df(w) ==
    LET filtered == Filtered(w)
        start == (w.screener_page - 1) * w.screener_rpp
        end == start + w.screener_rpp
        shown == Iloc(filtered, start, end)
    IN  [i \in 1..Len(shown) |-> DisplayCols(shown[i])]

\* The widget values of a first run.
ScreenerDefaults ==
    [ screener_search   |-> << >>,
      screener_sectors  |-> sectors,
      screener_mcap_min |-> mcap_min,
      screener_mcap_max |-> mcap_max,
      screener_sort_col |-> "None",
      screener_sort_asc |-> FALSE,
      screener_rpp      |-> 25,
      screener_page     |-> 1 ]

\* One run of the screener after the user changed one widget: w is the widget
\* state with that change.  The "Page" number input keeps its value while its
\* max_value (pages) is the same and starts again at value=1 when it differs.
ScreenerRun(w, widget, picked_page) ==
    LET old == session_state
        pages_old == PageCount(Len(Filtered(old)), old.screener_rpp)
        pages == PageCount(Len(Filtered(w)), w.screener_rpp)
        page_no == IF widget = "page" THEN picked_page
                   ELSE IF pages = pages_old THEN old.screener_page
                   ELSE 1
        w1 == [w EXCEPT !.screener_page = page_no]
    IN  /\ session_state' = w1
        /\ notices' = display_df(w1)
        /\ event' = Ev("Stock_Screener", "rerun", 0)

InitScreener ==
    /\ session_state = ScreenerDefaults
    /\ event = Ev("Stock_Screener", "visit", 0)
    /\ notices = display_df(ScreenerDefaults)

ScreenerSearch ==
    \E q \in Queries :
        ScreenerRun([session_state EXCEPT !.screener_search = q], "search", 0)
ScreenerSectors ==
    \E sel \in SUBSET sectors :
        ScreenerRun([session_state EXCEPT !.screener_sectors = sel], "sectors", 0)
ScreenerMcapMin ==
    \E v \in McapInputs :
        ScreenerRun([session_state EXCEPT !.screener_mcap_min = v], "mcap_min", 0)
ScreenerMcapMax ==
    \E v \in McapInputs :
        ScreenerRun([session_state EXCEPT !.screener_mcap_max = v], "mcap_max", 0)
ScreenerSortCol ==
    \E c \in {"None"} \cup numeric_cols :
        ScreenerRun([session_state EXCEPT !.screener_sort_col = c], "sort_col", 0)
ScreenerSortAsc ==
    ScreenerRun([session_state EXCEPT !.screener_sort_asc = ~@], "sort_asc", 0)
ScreenerRpp ==
    \E n \in RppOptions :
        ScreenerRun([session_state EXCEPT !.screener_rpp = n], "rpp", 0)
ScreenerPage ==
    \E n \in 1..PageCount(Len(Filtered(session_state)), session_state.screener_rpp) :
        ScreenerRun(session_state, "page", n)

NextScreener ==
    \/ ScreenerSearch
    \/ ScreenerSectors
    \/ ScreenerMcapMin
    \/ ScreenerMcapMax
    \/ ScreenerSortCol
    \/ ScreenerSortAsc
    \/ ScreenerRpp
    \/ ScreenerPage

SpecScreener == InitScreener /\ [][NextScreener]_vars


\* ------------------------------------- execute_trade_record, called directly
\* The arguments of the calls: a ticker, the two sides and an unknown one,
\* quantities around zero, prices of both signs.  The session is the one the
\* ChronoTrade script leaves at its first run (holdings = {}).
CallTickers == {"TCS"}
CallActions == {"BUY", "SELL", "HOLD"}
CallQuantities == {0, 10, 15}
CallPrices == {D(3850, 0), D(4000, 0), D(-37, -63000)}
CallTimestamps == { [ymd |-> "2008-10-01", hms |-> "00:00:00"] }

InitLedger ==
    /\ session_state = DictDefaults(render_sidebar(FreshSession))
    /\ event = Ev("none", "start", 0)
    /\ notices = << >>

Execute ==
    \E ticker \in CallTickers, action \in CallActions, quantity \in CallQuantities,
       price \in CallPrices, dt \in CallTimestamps :
        LET ev == Ev("call", action, << ticker, quantity, price >>)
        IN  RunWithin(MaxLedgerTrades,
                      execute_trade_record(session_state, ticker, action, quantity,
                                           price, dt, None),
                      ev)

NextLedger == Execute

SpecLedger == InitLedger /\ [][NextLedger]_vars


\* ------------------------------------------------------------------ claims
Account(ss) == << ss.virtual_cash, ss.holdings, ss.trades >>
ChronoSurface(ss) ==
    << ss.chrono_ticker_data, ss.sim_idx, ss.current_ticker, ss.current_scenario >>
LiveSurface(ss) == << ss.ticker_data, ss.ticker >>

\* A BUY or SELL click on one of the two trading surfaces.
IsTrade(ev) == ev.page \in {"ChronoTrade", "Live_Market"} /\ ev.widget \in {"BUY", "SELL"}
\* The ticker and the price the surface of ev trades at, read before the run.
SurfaceTicker(ss, ev) ==
    IF ev.page = "ChronoTrade" THEN ss.current_ticker ELSE ss.ticker
SurfacePrice(ss, ev) ==
    IF ev.page = "ChronoTrade"
      THEN ss.chrono_ticker_data[ss.sim_idx + 1].Close
      ELSE ss.ticker_data[Len(ss.ticker_data)].Close
Held(ss, t) == Get(ss.holdings, t, DEFAULT_POSITION)

Accepted == notices \in { << "Bought" >>, << "Sold" >> }
NoFunds == << "Not enough virtual cash." >>
NoHoldings == { << "You don't have enough shares to sell." >>,
                << "Not enough holdings to sell." >> }

\* C1: cash >= 0 after every BUY/SELL request on either surface, at any price
\* the loaded series supplies.
C1_CashNonNegative == ~Lt(session_state.virtual_cash, Zero)

\* C2: every position quantity is >= 0, and a SELL of more than the held
\* quantity of the ticker (also of a ticker never bought) is rejected and
\* leaves the quantities unchanged.
C2_NoShortSelling ==
    [][ /\ \A k \in DOMAIN session_state'.holdings :
              session_state'.holdings[k].quantity >= 0
        /\ ( /\ IsTrade(event')
             /\ event'.widget = "SELL"
             /\ event'.arg > Held(session_state, SurfaceTicker(session_state, event')).quantity )
           => /\ notices' \in NoHoldings
              /\ session_state'.holdings = session_state.holdings ]_vars

C2_Witness ==
    /\ IsTrade(event)
    /\ event.widget = "SELL"
    /\ notices \in NoHoldings
    /\ Held(session_state, SurfaceTicker(session_state, event)).quantity > 0
    /\ event.arg > Held(session_state, SurfaceTicker(session_state, event)).quantity

CallErrors ==
    { << "Quantity must be positive." >>, NoFunds,
      << "You don't have enough shares to sell." >>, << "Unknown action." >> }
\* C3: a call of execute_trade_record with a non-positive quantity, an invalid
\* (non-positive) price, a BUY above the cash, a SELL above the holdings or an
\* unknown side leaves cash, holdings and the trade log as they were and
\* reports an error.
C3_InvalidCallChangesNothing ==
    [][ event'.page = "call" =>
          LET action == event'.widget
              ticker == event'.arg[1]
              quantity == event'.arg[2]
              price == event'.arg[3]
              invalid ==
                \/ quantity <= 0
                \/ Leq(price, Zero)
                \/ action = "BUY" /\ Lt(session_state.virtual_cash, Mul(price, quantity))
                \/ action = "SELL" /\ quantity > Held(session_state, ticker).quantity
                \/ action \notin {"BUY", "SELL"}
          IN  invalid => /\ Account(session_state') = Account(session_state)
                         /\ notices' \in CallErrors ]_vars

\* C4: the trade log is append-only: an accepted BUY or SELL adds exactly one
\* record at the end, and no other run changes the log.
C4_AppendOnly ==
    [][ LET old == session_state.trades
            new == session_state'.trades
        IN  IF IsTrade(event') /\ Accepted'
              THEN /\ Len(new) = Len(old) + 1
                   /\ SubSeq(new, 1, Len(old)) = old
                   /\ new[Len(new)].action = event'.widget
                   /\ new[Len(new)].quantity = event'.arg
              ELSE new = old ]_vars

C4_Witness ==
    /\ Len(session_state.trades) = 2
    /\ IsTrade(event)
    /\ Accepted
    /\ session_state.trades[1] # session_state.trades[2]

\* C5: every position whose quantity is 0 has avg_price 0.
C5_ZeroQuantityZeroAvg ==
    \A k \in DOMAIN session_state.holdings :
        session_state.holdings[k].quantity = 0
            => session_state.holdings[k].avg_price = Zero

\* A SELL has just brought a position bought at a non-zero price to 0.
C5_Witness ==
    /\ IsTrade(event)
    /\ event.widget = "SELL"
    /\ notices = << "Sold" >>
    /\ LET t == SurfaceTicker(session_state, event)
       IN  /\ t \in DOMAIN session_state.holdings
           /\ session_state.holdings[t].quantity = 0
           /\ session_state.holdings[t].avg_price = Zero
           /\ \E i \in 1..Len(session_state.trades) :
                 /\ session_state.trades[i].ticker = t
                 /\ session_state.trades[i].action = "BUY"
                 /\ session_state.trades[i].price # Zero

\* C6: an accepted BUY of q at p on a position (old_qty, old_avg) gives
\* quantity old_qty + q, avg_price (old_avg * old_qty + p * q) / (old_qty + q)
\* and cash reduced by p * q; on an empty position the avg_price is p.
C6_WeightedAverage ==
    [][ (IsTrade(event') /\ event'.widget = "BUY" /\ notices' = << "Bought" >>) =>
          LET t == SurfaceTicker(session_state, event')
              p == SurfacePrice(session_state, event')
              q == event'.arg
              old == Held(session_state, t)
              new == Held(session_state', t)
          IN  /\ new.quantity = old.quantity + q
              /\ new.avg_price =
                    Div(Add(Mul(old.avg_price, old.quantity), Mul(p, q)), old.quantity + q)
              /\ session_state'.virtual_cash = Sub(session_state.virtual_cash, Mul(p, q))
              /\ old.quantity = 0 => new.avg_price = p ]_vars

\* A BUY at a second price has been added to an open position.
C6_Witness ==
    /\ IsTrade(event)
    /\ event.widget = "BUY"
    /\ notices = << "Bought" >>
    /\ LET h == Held(session_state, SurfaceTicker(session_state, event))
       IN  /\ h.quantity > event.arg
           /\ h.avg_price # SurfacePrice(session_state, event)

\* C7: an accepted SELL that leaves the quantity positive keeps avg_price,
\* takes exactly the sold quantity off and adds price * quantity to cash.
C7_PartialSell ==
    [][ ( /\ IsTrade(event') /\ event'.widget = "SELL" /\ notices' = << "Sold" >>
          /\ Held(session_state', SurfaceTicker(session_state, event')).quantity > 0 ) =>
          LET t == SurfaceTicker(session_state, event')
              p == SurfacePrice(session_state, event')
              q == event'.arg
              old == Held(session_state, t)
              new == Held(session_state', t)
          IN  /\ new.avg_price = old.avg_price
              /\ new.quantity = old.quantity - q
              /\ session_state'.virtual_cash = Add(session_state.virtual_cash, Mul(p, q)) ]_vars

C7_Witness ==
    /\ IsTrade(event)
    /\ event.widget = "SELL"
    /\ notices = << "Sold" >>
    /\ LET h == Held(session_state, SurfaceTicker(session_state, event))
       IN  h.quantity > 0 /\ h.avg_price # Zero

\* C8: no trade at a price <= 0 is ever appended to the log (such a request
\* is to be rejected with InvalidPrice).
C8_NoInvalidPriceInLog ==
    \A i \in 1..Len(session_state.trades) : Lt(Zero, session_state.trades[i].price)

Fresh == DictDefaults(render_sidebar(FreshSession))
Call(action, quantity, price) == Ev("call", action, << "TCS", quantity, price >>)
AfterFirstBuy(ss) ==
    /\ ss.virtual_cash = FromInt(61500)
    /\ Held(ss, "TCS") = [quantity |-> 10, avg_price |-> FromInt(3850)]
    /\ Len(ss.trades) = 1
AfterSellAll(ss) ==
    /\ ss.virtual_cash = FromInt(101500)
    /\ Held(ss, "TCS") = [quantity |-> 0, avg_price |-> Zero]
    /\ Len(ss.trades) = 2
\* C9: from a fresh session, BUY 10 TCS at 3850 gives cash 61500, quantity 10,
\* avg_price 3850, log length 1; SELL 15 at 4000 is then rejected with the
\* state unchanged; SELL 10 at 4000 then gives cash 101500, quantity 0,
\* avg_price 0, log length 2.
C9_EndToEnd ==
    [][ /\ (session_state = Fresh /\ event' = Call("BUY", 10, FromInt(3850)))
            => (notices' = << "Bought" >> /\ AfterFirstBuy(session_state'))
        /\ (AfterFirstBuy(session_state) /\ event' = Call("SELL", 15, FromInt(4000)))
            => /\ notices' = << "You don't have enough shares to sell." >>
               /\ session_state' = session_state
        /\ (AfterFirstBuy(session_state) /\ event' = Call("SELL", 10, FromInt(4000)))
            => (notices' = << "Sold" >> /\ AfterSellAll(session_state')) ]_vars

C9_Witness ==
    /\ event = Call("SELL", 10, FromInt(4000))
    /\ AfterSellAll(session_state)
    /\ session_state.trades[1].action = "BUY"
    /\ session_state.trades[1].price = FromInt(3850)
    /\ session_state.trades[2].action = "SELL"

ChronoNoData == "No data found for this ticker in the selected period."
LiveNoData == "No historical data found for the selected ticker."
\* C10: a load whose result is empty leaves the surface as it was (Unloaded,
\* or Loaded with the same series, cursor, ticker and scenario), reports the
\* no-data notice and leaves cash, holdings and the log untouched.
C10_FailedLoadKeepsSurface ==
    [][ /\ event'.widget = "Load" =>
              \/ /\ notices' = << ChronoNoData >>
                 /\ ChronoSurface(session_state') = ChronoSurface(session_state)
                 /\ LiveSurface(session_state') = LiveSurface(session_state)
                 /\ Account(session_state') = Account(session_state)
              \/ /\ notices' = << "Scenario loaded" >>
                 /\ session_state'.chrono_ticker_data # Empty
        /\ event'.widget = "Fetch" =>
              \/ /\ notices' = << LiveNoData >>
                 /\ LiveSurface(session_state') = LiveSurface(session_state)
                 /\ ChronoSurface(session_state') = ChronoSurface(session_state)
                 /\ Account(session_state') = Account(session_state)
              \/ /\ notices' = << "Loaded data" >>
                 /\ session_state'.ticker_data # Empty ]_vars

\* A failed load on a Loaded surface whose cursor is not on the newest bar.
C10_Witness ==
    /\ event.widget = "Load"
    /\ notices = << ChronoNoData >>
    /\ ChronoLoaded(session_state)
    /\ session_state.sim_idx = 0
    /\ Len(session_state.chrono_ticker_data) = 2

\* C11: every successful load puts the surface in Loaded with the series of
\* the chosen ticker and scenario and the cursor on the last index of that
\* series, whatever the series and cursor before, so that the price after the
\* load is the close of the newest bar.
C11_LoadResetsCursor ==
    [][ (event'.widget = "Load" /\ notices' = << "Scenario loaded" >>) =>
          LET df == session_state'.chrono_ticker_data
          IN  /\ ChronoLoaded(session_state')
              /\ df \in ScenarioHistory(session_state'.current_ticker,
                                        session_state'.current_scenario)
              /\ session_state'.sim_idx = Len(df) - 1
              /\ session_state'.prices[session_state'.current_ticker] = df[Len(df)].Close ]_vars

LastTrade(ss) == ss.trades[Len(ss.trades)]

\* C12: whenever the scenario surface is Loaded the cursor is an index of the
\* loaded series (also right after a longer series was replaced by a shorter
\* one) and the price offered for trading, the one a trade is booked at, is
\* the close of the bar at the cursor; a live trade is booked at the close of
\* the last bar of the stored series.
C12_CursorInRange ==
    /\ ChronoLoaded(session_state) =>
          LET df == session_state.chrono_ticker_data
              i == session_state.sim_idx
          IN  /\ i \in 0..(Len(df) - 1)
              /\ event.page = "ChronoTrade" =>
                    session_state.prices[session_state.current_ticker] = df[i + 1].Close
              /\ (event.page = "ChronoTrade" /\ IsTrade(event) /\ Accepted) =>
                    LastTrade(session_state).price = Round4(df[i + 1].Close)
    /\ (event.page = "Live_Market" /\ IsTrade(event) /\ Accepted) =>
          LET df == session_state.ticker_data
          IN  LastTrade(session_state).price = Round4(df[Len(df)].Close)

\* A one-bar series has just replaced the two-bar series of CL=F.
C12_Witness ==
    /\ event.widget = "Load"
    /\ notices = << "Scenario loaded" >>
    /\ "CL=F" \in DOMAIN session_state.prices
    /\ Len(session_state.chrono_ticker_data) = 1
    /\ session_state.sim_idx = 0

\* C13: after every accepted trade on ticker T at price p, on either surface,
\* the last known price of T is p and the last known prices of all other
\* tickers are as before the trade.
C13_LastKnownPrice ==
    [][ (IsTrade(event') /\ Accepted') =>
          LET t == SurfaceTicker(session_state, event')
              p == SurfacePrice(session_state, event')
              old == session_state.prices
              new == session_state'.prices
          IN  /\ t \in DOMAIN new
              /\ new[t] = p
              /\ \A k \in (DOMAIN old \cup DOMAIN new) \ {t} :
                    k \in DOMAIN old /\ k \in DOMAIN new /\ new[k] = old[k] ]_vars

\* value_position: quantity times the last known price of the ticker, or
\* times the position's avg_price when no price was ever observed.
RECURSIVE PositionsValue(_, _, _)
PositionsValue(holdings, prices, keys) ==
    IF keys = {} THEN Zero
    ELSE LET t == CHOOSE k \in keys : TRUE
             h == holdings[t]
             px == IF t \in DOMAIN prices THEN prices[t] ELSE h.avg_price
             rest == PositionsValue(holdings, prices, keys \ {t})
         IN  IF h.quantity > 0 THEN Add(rest, Mul(px, h.quantity)) ELSE rest

\* C14: the portfolio value shown is cash plus, for every position with
\* quantity > 0, quantity times the last known price, or times avg_price when
\* the ticker has no known price; other positions contribute 0.
C14_PortfolioValue ==
    (event.page = "ChronoTrade" /\ ChronoLoaded(session_state)) =>
        port_val(session_state) =
            Add(session_state.virtual_cash,
                PositionsValue(session_state.holdings, session_state.prices,
                               DOMAIN session_state.holdings))

\* The record of a trade made on the scenario surface: the ticker and the
\* scenario the loaded series was fetched for, the close and the timestamp of
\* the bar at the cursor.
ChronoRecordOk(ss, rec) ==
    LET df == ss.chrono_ticker_data
        bar == df[ss.sim_idx + 1]
    IN  /\ "scenario" \in DOMAIN rec
        /\ rec.ticker = ss.current_ticker
        /\ rec.scenario = ss.current_scenario
        /\ df \in ScenarioHistory(rec.ticker, rec.scenario)
        /\ rec.price = Round4(bar.Close)
        /\ rec.datetime = Strftime(bar.ts)

\* C15 as stated: every trade record carries a scenario label; a trade on the
\* scenario surface has the loaded ticker and scenario, the close at the
\* cursor and the cursor bar's timestamp, a trade on the live surface has the
\* label "-".
C15_ScenarioLabel ==
    [][ (IsTrade(event') /\ Accepted') =>
          LET rec == LastTrade(session_state')
          IN  /\ "scenario" \in DOMAIN rec
              /\ event'.page = "ChronoTrade" => ChronoRecordOk(session_state, rec)
              /\ event'.page = "Live_Market" => rec.scenario = "-" ]_vars

\* C15 as amended: a trade on the scenario surface is recorded with the loaded
\* ticker and scenario, the close at the cursor (rounded to 4 decimals) and
\* the cursor bar's timestamp; a trade on the live surface is recorded without
\* a scenario field.
C15_ScenarioLabelAmended ==
    [][ (IsTrade(event') /\ Accepted') =>
          LET rec == LastTrade(session_state')
          IN  /\ event'.page = "ChronoTrade" => ChronoRecordOk(session_state, rec)
              /\ event'.page = "Live_Market" => "scenario" \notin DOMAIN rec ]_vars

\* The log holds a live trade and, after it, a scenario trade made at a bar
\* that is not the newest one.
C15_Witness ==
    /\ Len(session_state.trades) = 2
    /\ "scenario" \notin DOMAIN session_state.trades[1]
    /\ event.page = "ChronoTrade" /\ IsTrade(event) /\ Accepted
    /\ session_state.sim_idx = 0
    /\ LastTrade(session_state).scenario = "COVID-19 Crash"
    /\ LastTrade(session_state).datetime = << "2020-01-02", "00:00:00" >>

\* pat occurs in text, character for character.
IsSubstring(text, pat) ==
    \E i \in 0..(Len(text) - Len(pat)) : SubSeq(text, i + 1, i + Len(pat)) = pat

\* The rows that pass all active filters, in the chosen order.
PassingRows(w) ==
    LET ql == StrLower(Strip(w.screener_search))
        pass(r) ==
            /\ \/ IsSubstring(StrLower(r.Ticker), ql)
               \/ IsSubstring(StrLower(r.Name), ql)
            /\ w.screener_sectors # {} => r.Category \in w.screener_sectors
            /\ has_mcap => /\ r.MarketCap # NaN
                           /\ w.screener_mcap_min <= r.MarketCap
                           /\ r.MarketCap <= w.screener_mcap_max
        rows == SelectSeq(full_df, pass)
    IN  IF w.screener_sort_col # "None"
          THEN sort_values(rows, w.screener_sort_col, w.screener_sort_asc)
          ELSE rows

\* C16: the displayed page p, 1 <= p <= pages = max(1, ceil(total / per_page)),
\* is rows [(p - 1) * per_page, p * per_page) of the rows that pass all active
\* filters (the query a case-insensitive substring of ticker or name, the
\* category selected, the market cap within the bounds), in the chosen order
\* with nulls last, and has at most per_page rows.
C16_ScreenerPage ==
    LET w == session_state
        rows == PassingRows(w)
        total == Len(rows)
        per_page == w.screener_rpp
        pages == IF total > per_page THEN (total + per_page - 1) \div per_page ELSE 1
        p == w.screener_page
        last == IF p * per_page < total THEN p * per_page ELSE total
        expected == SubSeq(rows, (p - 1) * per_page + 1, last)
    IN  /\ 1 <= p /\ p <= pages
        /\ Len(notices) <= per_page
        /\ notices = [i \in 1..Len(expected) |-> DisplayCols(expected[i])]

IsLiveTrade(ev) == ev.page = "Live_Market" /\ ev.widget \in {"BUY", "SELL"}
Done(out) == out \in { << "Bought" >>, << "Sold" >> }

\* C17: a BUY or SELL on the live surface has the outcome of
\* execute_trade_record called with the same ticker, side, quantity and price
\* on the same state: both accept or both reject, and cash, the holdings map
\* and the side, quantity, price and value of the appended trade are the same.
C17_LiveAsLedger ==
    [][ IsLiveTrade(event') =>
          LET ss == session_state
              df == ss.ticker_data
              r == execute_trade_record(ss, ss.ticker, event'.widget, event'.arg,
                                        df[Len(df)].Close,
                                        CHOOSE now \in NowValues : TRUE, None)
              new == session_state'
          IN  /\ Done(notices') <=> Done(r.out)
              /\ new.virtual_cash = r.ss.virtual_cash
              /\ new.holdings = r.ss.holdings
              /\ Len(new.trades) = Len(r.ss.trades)
              /\ Done(notices') =>
                    LET a == LastTrade(new)
                        b == LastTrade(r.ss)
                    IN  /\ a.action = b.action
                        /\ a.quantity = b.quantity
                        /\ a.price = b.price
                        /\ a.value = b.value ]_vars

\* A live SELL has closed a position that a live BUY opened.
C17_Witness ==
    /\ IsLiveTrade(event)
    /\ notices = << "Sold" >>
    /\ Held(session_state, session_state.ticker) = DEFAULT_POSITION
    /\ Len(session_state.trades) = 2
    /\ session_state.trades[1].action = "BUY"
    /\ "scenario" \notin DOMAIN session_state.trades[1]

\* C18: when render_sidebar normalizes the legacy list of holdings, each
\* record {ticker, quantity, avg_price} becomes the position stored under its
\* own ticker, so that a lookup of that ticker finds its quantity and
\* avg_price.
C18_NormalizedByTicker ==
    [][ (session_state.holdings_kind = "list" /\ session_state'.holdings_kind = "dict") =>
          \A i \in 1..Len(session_state.holdings) :
              LET rec == session_state.holdings[i]
                  h == Held(session_state', rec.ticker)
              IN  /\ rec.ticker \in DOMAIN session_state'.holdings
                  /\ h.quantity = rec.quantity
                  /\ h.avg_price = rec.avg_price ]_vars

\* C19: a BUY or SELL request on a Loaded surface, accepted or rejected,
\* leaves the loaded series, the cursor, the loaded ticker and the loaded
\* scenario as they were, and the surface is still Loaded.
C19_TradeKeepsSurface ==
    [][ IsTrade(event') =>
          /\ ChronoSurface(session_state') = ChronoSurface(session_state)
          /\ LiveSurface(session_state') = LiveSurface(session_state)
          /\ event'.page = "ChronoTrade" => ChronoLoaded(session_state')
          /\ event'.page = "Live_Market" => LiveLoaded(session_state') ]_vars

\* A rejected BUY at a bar that is not the newest one, after an accepted one.
C19_Witness ==
    /\ IsTrade(event)
    /\ event.page = "ChronoTrade"
    /\ notices = NoFunds
    /\ Len(session_state.trades) = 1
    /\ session_state.sim_idx = 0
    /\ Len(session_state.chrono_ticker_data) = 2

\* C20: every trade made on the live surface is booked under the ticker the
\* stored series was fetched for, at the last close of that series, also
\* after another ticker was selected without a fetch or a fetch returned no
\* data.
C20_LiveTickerMatchesSeries ==
    [][ (IsLiveTrade(event') /\ Done(notices')) =>
          LET rec == LastTrade(session_state')
              df == session_state'.ticker_data
          IN  /\ df \in LiveHistory(rec.ticker)
              /\ rec.price = Round4(df[Len(df)].Close) ]_vars

\* The logged BUY quantities of ticker t minus its logged SELL quantities.
RECURSIVE NetQuantity(_, _)
NetQuantity(trades, t) ==
    IF trades = << >> THEN 0
    ELSE LET rec == trades[Len(trades)]
             rest == NetQuantity(SubSeq(trades, 1, Len(trades) - 1), t)
         IN  IF rec.ticker # t THEN rest
             ELSE IF rec.action = "BUY" THEN rest + rec.quantity
             ELSE rest - rec.quantity

\* C21: in every state of a session, whatever pages were visited in whatever
\* order, each position's quantity is the sum of the logged BUY quantities of
\* its ticker minus the sum of its logged SELL quantities; the session starts
\* without holdings and every position is accounted for by the log.
C21_PositionsFromLog ==
    LET ss == session_state
    IN  /\ ss.holdings_kind = "list" =>
              \A i \in 1..Len(ss.holdings) :
                  ss.holdings[i].quantity = NetQuantity(ss.trades, ss.holdings[i].ticker)
        /\ ss.holdings_kind = "dict" =>
              \A k \in DOMAIN ss.holdings :
                  ss.holdings[k].quantity = NetQuantity(ss.trades, k)
        /\ \A i \in 1..Len(ss.trades) :
              Held(ss, ss.trades[i].ticker).quantity = NetQuantity(ss.trades, ss.trades[i].ticker)

\* 100000 plus price x quantity of the logged SELL trades minus price x
\* quantity of the logged BUY trades.
RECURSIVE CashFromLog(_)
CashFromLog(trades) ==
    IF trades = << >> THEN INITIAL_CASH
    ELSE LET rec == trades[Len(trades)]
             rest == CashFromLog(SubSeq(trades, 1, Len(trades) - 1))
             amount == Mul(rec.price, rec.quantity)
         IN  IF rec.action = "BUY" THEN Sub(rest, amount) ELSE Add(rest, amount)

RECURSIVE LoggedQuantity(_)
LoggedQuantity(trades) ==
    IF trades = << >> THEN 0
    ELSE trades[Len(trades)].quantity + LoggedQuantity(SubSeq(trades, 1, Len(trades) - 1))

\* Only an accepted BUY or SELL changes cash.
OnlyTradesChangeCash ==
    ~(IsTrade(event') /\ Accepted') =>
        session_state'.virtual_cash = session_state.virtual_cash

\* C22 as stated: in every state cash is 100000 plus price x quantity of all
\* logged SELL trades minus price x quantity of all logged BUY trades, on both
\* surfaces, and nothing but an accepted BUY or SELL changes cash.
C22_CashFromLog ==
    /\ [][OnlyTradesChangeCash]_vars
    /\ [](session_state.virtual_cash = CashFromLog(session_state.trades))

\* C22 as amended: the same, up to the rounding of the logged prices to 4
\* decimals, which is at most 0.00005 per share traded.
C22_CashFromLogAmended ==
    /\ [][OnlyTradesChangeCash]_vars
    /\ [](LET cash == session_state.virtual_cash
              logged == CashFromLog(session_state.trades)
              tolerance == Mul(D(0, 5), LoggedQuantity(session_state.trades))
          IN  /\ Leq(Sub(cash, logged), tolerance)
              /\ Leq(Sub(logged, cash), tolerance))

\* A live BUY at a close with five decimals and a SELL on the scenario
\* surface are in the log.
C22_Witness ==
    /\ Len(session_state.trades) = 2
    /\ session_state.trades[1].action = "BUY"
    /\ session_state.trades[1].price = D(2893, 45000)
    /\ event.page = "ChronoTrade" /\ event.widget = "SELL" /\ Accepted
    /\ session_state.virtual_cash # CashFromLog(session_state.trades)

====
